---- MODULE Spec2Model ----
(***************************************************************************)
(* Order placement, order lifecycle and delivery acceptance of the         *)
(* smartSugu backend, as state machines over the document store.           *)
(*                                                                         *)
(* Every awaited database call of a service function is one atomic step;   *)
(* between two steps of one request any other request may take steps.      *)
(* A document loaded with findById is a private copy: save() writes back   *)
(* only the paths the request modified ($set), findByIdAndUpdate with $inc *)
(* and an array push are atomic updates of the stored document.            *)
(***************************************************************************)
EXTENDS Integers, Sequences, FiniteSets, TLC

\* ------------------------------------------------------------------ bounds
MaxStock == 2        \* initial stock of a product is drawn from 0..MaxStock
MaxOrders == 1       \* orders persisted in one run of requests served in turn
MaxRaceOrders == 2   \* orders persisted in one run of concurrent requests
MaxUsage == 2        \* usageLimit and usedCount of a promotion are drawn from 0..MaxUsage
MaxTime == 2         \* the clock runs from 1 to MaxTime
MaxHistory == 2      \* entries of a delivery's statusHistory
MaxCompleted == 2    \* deliveries a courier has completed

\* ------------------------------------------------------------ the universe
Procs == {"r1", "r2"}             \* concurrently served requests
Products == {"p1", "p2"}          \* products that exist in the store
ProductIds == Products \cup {"p0"} \* "p0": a well-formed id of no product
Quantities == {1, 2}              \* Joi: quantity integer, min 1
PromoIds == {"pct", "fix", "off", "px"} \* "px": id of no promotion
Livreurs == {"l1", "l2"}          \* couriers that exist
LivreurIds == Livreurs \cup {"l0"} \* "l0": id of no courier
Deliveries == {"d1", "d2"}        \* deliveries that exist
DeliveryIds == Deliveries \cup {"d0"} \* "d0": id of no delivery
Users == {"u1", "u2"}             \* users that redeem promotions
NoDate == 0                       \* expirationDate not set

VARIABLES
  stock,       \* Product.stock, per existing product
  orders,      \* the Order collection: sequence of documents, id = index
  promotions,  \* the Promotion collection
  deliveries,  \* the Delivery collection
  livreurs,    \* the Livreur collection
  payments,    \* the Payment collection (payments and refunds)
  cache,       \* redis: the cached delivery per key delivery:<id>
  now,         \* the clock new Date() reads
  call,        \* per request: operation, arguments, position, local copies
  before       \* the store as it was when the request in flight started

vars == <<stock, orders, promotions, deliveries, livreurs, payments, cache, now,
          call, before>>

\* ------------------------------------------------------------ pure helpers
RECURSIVE SumItems(_)
\* products.reduce((acc, item) => acc + item.quantity * item.price, 0)
SumItems(items) ==
  IF items = <<>> THEN 0
  ELSE Head(items).quantity * Head(items).price + SumItems(Tail(items))

RECURSIVE QtyOf(_, _)
\* total quantity the line items of a list order of one product
QtyOf(items, prod) ==
  IF items = <<>> THEN 0
  ELSE (IF Head(items).productId = prod THEN Head(items).quantity ELSE 0)
       + QtyOf(Tail(items), prod)

\* the enum of Order.status, and the list updateOrderStatus accepts
ValidOrderStatusesMutant == {"pending", "accepted", "in_progress", "completed", "cancelled", "bogus"}
ValidOrderStatuses == {"pending", "accepted", "in_progress", "completed", "cancelled"}

\* createOrder's availability test on one line item
StockInsufficientMutant(have, quantity) == have < quantity - 1
StockInsufficient(have, quantity) == have < quantity

\* cancelOrder's refusal test
NotCancellableMutant(status) == status = "cancelled"
NotCancellable(status) == status = "completed" \/ status = "cancelled"

\* promotionSchema.methods.isValid, with new Date() read as t
IsValidAtMutant(promo, t) ==
  /\ promo.isActive
  /\ promo.usageLimit >= promo.usedCount
  /\ (promo.expirationDate = NoDate \/ t <= promo.expirationDate)
IsValidAt(promo, t) ==
  /\ promo.isActive
  /\ promo.usageLimit > promo.usedCount
  /\ (promo.expirationDate = NoDate \/ t <= promo.expirationDate)
IsValid(promo) == IsValidAt(promo, now)

\* line 32 of createOrder: the discount taken off the declared total
DiscountedDeclaredTotal(total, promo) ==
  total - ((total * promo.discountValue) \div 100)

\* $inc of one product's stock
IncStockMutant(s, prod, delta) == [s EXCEPT ![prod] = @ + delta + 1]
IncStock(s, prod, delta) == [s EXCEPT ![prod] = @ + delta]

\* ------------------------------------------------------------------ numbers
\* delivery.model.js calculateDistance works on IEEE doubles. A real is kept
\* here as the integer nearest to it in units of 1/One; degrees are kept in
\* units of 1/Base of a degree. Every intermediate value fits in 32 bits.
Base == 10000
One == Base * Base
Pi == 314159265
R == 6371
Abs(x) == IF x < 0 THEN -x ELSE x
Sgn(x) == IF x < 0 THEN -1 ELSE 1

\* x * y, for |x|, |y| < 4, rounded towards 0; what is left of the exact
\* product below one unit
Low(x, y) ==
  LET a1 == Abs(x) \div Base
      a0 == Abs(x) % Base
      b1 == Abs(y) \div Base
      b0 == Abs(y) % Base
  IN ((a1 * b0 + a0 * b1) % Base) * Base + a0 * b0
Times(x, y) ==
  LET a1 == Abs(x) \div Base
      a0 == Abs(x) % Base
      b1 == Abs(y) \div Base
      b0 == Abs(y) % Base
  IN Sgn(x) * Sgn(y)
       * (a1 * b1 + (a1 * b0 + a0 * b1) \div Base + Low(x, y) \div One)
\* x * y <= v, exactly, for x, y, v >= 0
AtMost(x, y, v) ==
  Times(x, y) < v \/ (Times(x, y) = v /\ Low(x, y) % One = 0)

\* y / x for 0 <= y <= x, 0 < x: the greatest q of lo..hi with q * x <= y
RECURSIVE Quot(_, _, _, _)
Quot(y, x, lo, hi) ==
  IF lo = hi THEN lo
  ELSE LET mid == (lo + hi + 1) \div 2
       IN IF AtMost(mid, x, y) THEN Quot(y, x, mid, hi)
          ELSE Quot(y, x, lo, mid - 1)

\* Math.sqrt(v) for 0 <= v <= 2: the greatest r of lo..hi with r * r <= v
RECURSIVE Root(_, _, _)
Root(v, lo, hi) ==
  IF lo = hi THEN lo
  ELSE LET mid == (lo + hi + 1) \div 2
       IN IF AtMost(mid, mid, v) THEN Root(v, mid, hi)
          ELSE Root(v, lo, mid - 1)
Sqrt(v) == Root(v, 0, 2 * One)

\* Math.sin(x) and Math.cos(x) for |x| <= 1.6, by their series
Sin(x) ==
  LET x2 == Times(x, x)
      t4 == One - x2 \div 72
      t3 == One - Times(x2, t4) \div 42
      t2 == One - Times(x2, t3) \div 20
      t1 == One - Times(x2, t2) \div 6
  IN Times(x, t1)
Cos(x) ==
  LET x2 == Times(x, x)
      t5 == One - x2 \div 90
      t4 == One - Times(x2, t5) \div 56
      t3 == One - Times(x2, t4) \div 30
      t2 == One - Times(x2, t3) \div 12
  IN One - Times(x2, t2) \div 2

\* Math.atan2(y, x) for x, y >= 0, not both 0: the arc tangent of a ratio
\* t <= 1 is four times that of the twice-halved angle, taken by its series
HalveAngle(t) == Quot(t, One + Sqrt(One + Times(t, t)), 0, One)
AtanSeries(u) ==
  LET u2 == Times(u, u)
      t5 == One \div 9 - Times(u2, One \div 11)
      t4 == One \div 7 - Times(u2, t5)
      t3 == One \div 5 - Times(u2, t4)
      t2 == One \div 3 - Times(u2, t3)
  IN Times(u, One - Times(u2, t2))
Atan(t) == 4 * AtanSeries(HalveAngle(HalveAngle(t)))
Atan2(y, x) ==
  IF y <= x THEN Atan(Quot(y, x, 0, One))
  ELSE Pi \div 2 - Atan(Quot(x, y, 0, One))

\* line 62: toRad = value * Math.PI / 180, of a value in degrees
toRad(value) ==
  Sgn(value) * (Abs(value) * 174 + (Abs(value) * 533) \div 1000)

\* lines 66-68: a
HavAMutant(lat1, lat2, dLat, dLon) ==
  Times(Sin(dLat \div 2), Sin(dLat \div 2))
    + Times(Sin(dLon \div 2), Sin(dLon \div 2))
HavA(lat1, lat2, dLat, dLon) ==
  Times(Sin(dLat \div 2), Sin(dLat \div 2))
    + Times(Times(Cos(lat1), Cos(lat2)),
            Times(Sin(dLon \div 2), Sin(dLon \div 2)))

\* lines 61-71: calculateDistance(startCoords, endCoords), in metres
calculateDistance(startCoords, endCoords) ==
  LET dLat == toRad(endCoords.latitude - startCoords.latitude)
      dLon == toRad(endCoords.longitude - startCoords.longitude)
      a == HavA(toRad(startCoords.latitude), toRad(endCoords.latitude),
                dLat, dLon)
      c == 2 * Atan2(Sqrt(a), Sqrt(One - a))
  IN (R * (c \div 1000)) \div 100

\* ------------------------------------------------------------ request state
NoItems == <<>>
NoBody == [products |-> NoItems, promotion |-> "none", totalPrice |-> 0]
NoPromotion == [discountType |-> "percentage", discountValue |-> 0,
                isActive |-> FALSE, usedCount |-> 0, usageLimit |-> 0,
                expirationDate |-> NoDate, redemptionHistory |-> <<>>,
                applicableProducts |-> {},
                stats |-> [weekly |-> 0, monthly |-> 0, yearly |-> 0]]
Idle == [op |-> "none", pc |-> "idle", body |-> NoBody, orderId |-> 0,
         newStatus |-> "none", livreurId |-> "none", deliveryId |-> "none",
         i |-> 0, loaded |-> "none", loadedRef |-> "none",
         livreurFound |-> FALSE, http |-> 0,
         promoId |-> "none", userId |-> "none", doc |-> NoPromotion,
         at |-> 0, result |-> FALSE, best |-> "none", declared |-> 0,
         via |-> "service", svc |-> 0, got |-> <<>>,
         tx |-> [order |-> 0, remove |-> FALSE],
         startCoords |-> [latitude |-> 0, longitude |-> 0],
         endCoords |-> [latitude |-> 0, longitude |-> 0], distance |-> 0]
NoDelivery == [order |-> 0, status |-> "pending", livreur |-> "none",
               statusHistory |-> <<>>]
NoLivreur == [deliveriesAssigned |-> <<>>,
              performance |-> [deliveriesCompleted |-> 0]]
NoSnapshot == [stock |-> [p \in Products |-> 0], orders |-> <<>>,
               deliveries |-> [d \in Deliveries |-> NoDelivery],
               livreurs |-> [l \in Livreurs |-> NoLivreur],
               promotions |-> [id \in PromoIds \ {"px"} |-> NoPromotion]]
Snapshot == [stock |-> stock, orders |-> orders,
             deliveries |-> deliveries, livreurs |-> livreurs,
             promotions |-> promotions]

store == <<stock, orders, promotions, deliveries, livreurs>>
env == <<payments, cache, now>>

\* The service call a controller has made has returned or thrown; the
\* controller answers, and the outcome of the service call is remembered.
Served(p, op) ==
  call[p].op = op /\ call[p].via = "controller" /\ call[p].pc = "done"
Send(p, code) ==
  call' = [call EXCEPT ![p].pc = "sent", ![p].svc = call[p].http,
                       ![p].http = code]

\* A request is taken up. With seq the requests are served one after the
\* other (no other request is in flight) and the store is remembered.
Begin(p, c, seq) ==
  /\ call[p].pc = "idle"
  /\ seq => \A q \in Procs : call[q].pc = "idle"
  /\ call' = [call EXCEPT ![p] = c]
  /\ before' = IF seq THEN Snapshot ELSE before
  /\ UNCHANGED <<store, env>>

\* The request ends with an HTTP status; 200/201 is the value returned.
Finish(p, code) == call' = [call EXCEPT ![p].pc = "done", ![p].http = code]
Goto(p, label) == call' = [call EXCEPT ![p].pc = label]

\* The response has been sent: the request slot is free again.
Return(p) ==
  /\ call[p].pc = IF call[p].via = "controller" THEN "sent" ELSE "done"
  /\ call' = [call EXCEPT ![p] = Idle]
  /\ before' = NoSnapshot
  /\ UNCHANGED <<store, env>>

\* ---------------------------------------------------------------- createOrder
\* order.service.js createOrder(clientId, orderBody)
StartCreateOrder(p, body, cap, seq) ==
  /\ Len(orders) + Cardinality({q \in Procs : call[q].op = "createOrder"
                                   /\ call[q].pc \in {"check", "promo", "persist"}})
       < cap
  /\ Begin(p, [Idle EXCEPT !.op = "createOrder", !.pc = "check",
                           !.body = body, !.i = 1,
                           !.declared = body.totalPrice], seq)

\* lines 13-21: one iteration of the availability loop (Product.findById)
CreateOrderCheck(p) ==
  /\ call[p].op = "createOrder" /\ call[p].pc = "check"
  /\ LET items == call[p].body.products
         k == call[p].i
     IN IF k > Len(items) THEN Goto(p, "promo")
        ELSE IF items[k].productId \notin Products THEN Finish(p, 404)
        ELSE IF StockInsufficient(stock[items[k].productId], items[k].quantity)
             THEN Finish(p, 400)
        ELSE call' = [call EXCEPT ![p].i = k + 1]
  /\ UNCHANGED <<store, before, env>>

\* lines 24-33: Promotion.findById, isValid, discount on the declared total
CreateOrderPromo(p) ==
  /\ call[p].op = "createOrder" /\ call[p].pc = "promo"
  /\ LET id == call[p].body.promotion
     IN IF id = "none" THEN Goto(p, "persist")
        ELSE IF id \notin DOMAIN promotions THEN Finish(p, 404)
        ELSE IF ~IsValid(promotions[id]) THEN Finish(p, 400)
        ELSE call' = [call EXCEPT
               ![p].pc = "persist",
               ![p].body.totalPrice =
                   DiscountedDeclaredTotal(call[p].body.totalPrice, promotions[id])]
  /\ UNCHANGED <<store, before, env>>

\* lines 36-37: the total that is stored
\* the status of an order that is created without one
NewOrderStatusMutant == "cancelled"
NewOrderStatus == "pending"

StoredTotalMutant(body) == body.totalPrice
StoredTotal(body) == SumItems(body.products)

\* lines 36-43: recompute the total, Order.create({client, ...orderBody})
CreateOrderPersist(p) ==
  /\ call[p].op = "createOrder" /\ call[p].pc = "persist"
  /\ orders' = Append(orders, [products |-> call[p].body.products,
                               promotion |-> call[p].body.promotion,
                               totalPrice |-> StoredTotal(call[p].body),
                               status |-> NewOrderStatus,
                               delivery |-> "none"])
  /\ call' = [call EXCEPT ![p].pc = "dec", ![p].i = 1,
                          ![p].orderId = Len(orders) + 1,
                          ![p].body.totalPrice = StoredTotal(call[p].body)]
  /\ UNCHANGED <<stock, promotions, deliveries, livreurs, before, env>>

\* lines 46-52: one iteration of the decrement loop ($inc stock: -quantity)
CreateOrderDec(p) ==
  /\ call[p].op = "createOrder" /\ call[p].pc = "dec"
  /\ LET items == call[p].body.products
         k == call[p].i
     IN IF k > Len(items)
        THEN Finish(p, 201) /\ UNCHANGED stock
        ELSE /\ stock' = IncStock(stock, items[k].productId, -items[k].quantity)
             /\ call' = [call EXCEPT ![p].i = k + 1]
  /\ UNCHANGED <<orders, promotions, deliveries, livreurs, before, env>>

\* lines 47-51: Product.findByIdAndUpdate throws (the database does not
\* answer); the error leaves createOrder, which has no handler for it
CreateOrderDecFails(p) ==
  /\ call[p].op = "createOrder" /\ call[p].pc = "dec"
  /\ call[p].i <= Len(call[p].body.products)
  /\ Finish(p, 500)
  /\ UNCHANGED <<store, before, env>>

\* ---------------------------------------------------------- updateOrderStatus
\* order.service.js updateOrderStatus(orderId, newStatus)
StartUpdateOrderStatus(p, orderId, newStatus, seq) ==
  Begin(p, [Idle EXCEPT !.op = "updateOrderStatus", !.pc = "read",
                        !.orderId = orderId, !.newStatus = newStatus], seq)

\* lines 75-82: Order.findById, the two refusals, the assignment
UpdateOrderStatusRead(p) ==
  /\ call[p].op = "updateOrderStatus" /\ call[p].pc = "read"
  /\ IF call[p].orderId > Len(orders) THEN Finish(p, 404)
     ELSE IF call[p].newStatus \notin ValidOrderStatuses THEN Finish(p, 400)
     ELSE call' = [call EXCEPT ![p].pc = "save",
                               ![p].loaded = orders[call[p].orderId].status]
  /\ UNCHANGED <<store, before, env>>

\* what save() stores of one path of a document: a path set to the value it
\* was loaded with is not modified and is not written
SavedStatusMutant(current, loaded, assigned) == current
SavedStatus(current, loaded, assigned) ==
  IF assigned = loaded THEN current ELSE assigned

\* line 83: order.save()
UpdateOrderStatusSave(p) ==
  /\ call[p].op = "updateOrderStatus" /\ call[p].pc = "save"
  /\ orders' = [orders EXCEPT ![call[p].orderId].status =
                  SavedStatus(@, call[p].loaded, call[p].newStatus)]
  /\ Finish(p, 200)
  /\ UNCHANGED <<stock, promotions, deliveries, livreurs, before, env>>

\* ---------------------------------------------------------------- cancelOrder
\* order.service.js cancelOrder(orderId)
StartCancelOrder(p, orderId, seq) ==
  /\ orderId <= Len(orders) =>
       \A prod \in Products :
         stock[prod] + QtyOf(orders[orderId].products, prod) <= MaxStock
  /\ Begin(p, [Idle EXCEPT !.op = "cancelOrder", !.pc = "read",
                           !.orderId = orderId], seq)

\* lines 93-97: getOrderById, the refusal, the assignment
CancelOrderRead(p) ==
  /\ call[p].op = "cancelOrder" /\ call[p].pc = "read"
  /\ IF call[p].orderId > Len(orders) THEN Finish(p, 404)
     ELSE IF NotCancellable(orders[call[p].orderId].status) THEN Finish(p, 400)
     ELSE call' = [call EXCEPT ![p].pc = "restore", ![p].i = 1,
                               ![p].loaded = orders[call[p].orderId].status]
  /\ UNCHANGED <<store, before, env>>

\* lines 100-104: one iteration of the restock loop ($inc stock: quantity)
CancelOrderRestore(p) ==
  /\ call[p].op = "cancelOrder" /\ call[p].pc = "restore"
  /\ LET items == orders[call[p].orderId].products
         k == call[p].i
     IN IF k > Len(items)
        THEN Goto(p, "save") /\ UNCHANGED stock
        ELSE /\ stock' = IncStock(stock, items[k].productId, items[k].quantity)
             /\ call' = [call EXCEPT ![p].i = k + 1]
  /\ UNCHANGED <<orders, promotions, deliveries, livreurs, before, env>>

\* line 106: order.save()
CancelOrderSave(p) ==
  /\ call[p].op = "cancelOrder" /\ call[p].pc = "save"
  /\ orders' = [orders EXCEPT ![call[p].orderId].status =
                  SavedStatus(@, call[p].loaded, "cancelled")]
  /\ Finish(p, 200)
  /\ UNCHANGED <<stock, promotions, deliveries, livreurs, before, env>>

\* user.controller.js cancelOrder: the handler around the service call
StartCancelOrderRequest(p, orderId, seq) ==
  /\ orderId <= Len(orders) =>
       \A prod \in Products :
         stock[prod] + QtyOf(orders[orderId].products, prod) <= MaxStock
  /\ Begin(p, [Idle EXCEPT !.op = "cancelOrder", !.pc = "read",
                           !.orderId = orderId, !.via = "controller"], seq)

\* what reading paymentStatus of an order document gives: the order schema
\* has no such path
PaymentStatus(order) ==
  IF "paymentStatus" \in DOMAIN order THEN order.paymentStatus ELSE "undefined"

\* lines 183-189: the refund test and the response. An error of the service
\* goes to the error handler as it is; orderService has no initiateRefund,
\* calling it throws.
CancelOrderRespond(p) ==
  /\ Served(p, "cancelOrder")
  /\ IF call[p].http # 200 THEN Send(p, call[p].http)
     ELSE IF PaymentStatus(orders[call[p].orderId]) = "paid" THEN Send(p, 500)
     ELSE Send(p, 200)
  /\ UNCHANGED <<store, before, env>>

\* user.controller.js createOrder: the handler around the service call
StartCreateOrderRequest(p, body, cap, seq) ==
  /\ Len(orders) + Cardinality({q \in Procs : call[q].op = "createOrder"
                                   /\ call[q].pc \in {"check", "promo", "persist"}})
       < cap
  /\ Begin(p, [Idle EXCEPT !.op = "createOrder", !.pc = "check",
                           !.body = body, !.i = 1,
                           !.declared = body.totalPrice,
                           !.via = "controller"], seq)

\* lines 131-134: the awaited notification of the merchant, which sends or
\* throws, and the response
CreateOrderRespond(p) ==
  /\ Served(p, "createOrder")
  /\ IF call[p].http # 201 THEN Send(p, call[p].http)
     ELSE \E sent \in BOOLEAN : Send(p, IF sent THEN 201 ELSE 500)
  /\ UNCHANGED <<store, before, env>>

\* ------------------------------------------------------- assignOrderToLivreur
\* user.controller.js assignOrderToLivreur, order.service.js isOrderAvailable
\* and assignOrderToLivreur(orderId, livreurId)
StartAssignOrder(p, orderId, livreurId, seq) ==
  Begin(p, [Idle EXCEPT !.op = "assignOrderToLivreur", !.pc = "avail",
                        !.orderId = orderId, !.livreurId = livreurId], seq)

\* controller lines 228-232: isOrderAvailable, else Conflict
AssignOrderAvailable(p) ==
  /\ call[p].op = "assignOrderToLivreur" /\ call[p].pc = "avail"
  /\ IF call[p].orderId > Len(orders) \/ orders[call[p].orderId].status # "pending"
     THEN Finish(p, 409)
     ELSE Goto(p, "read")
  /\ UNCHANGED <<store, before, env>>

\* service lines 161-166: getOrderById, the refusal, the assignments
AssignOrderRead(p) ==
  /\ call[p].op = "assignOrderToLivreur" /\ call[p].pc = "read"
  /\ IF call[p].orderId > Len(orders) THEN Finish(p, 404)
     ELSE IF orders[call[p].orderId].status # "pending" THEN Finish(p, 400)
     ELSE call' = [call EXCEPT ![p].pc = "save",
                               ![p].loaded = orders[call[p].orderId].status,
                               ![p].loadedRef = orders[call[p].orderId].delivery]
  /\ UNCHANGED <<store, before, env>>

\* service line 167: order.save() of delivery and status
AssignOrderSave(p) ==
  /\ call[p].op = "assignOrderToLivreur" /\ call[p].pc = "save"
  /\ orders' = [orders EXCEPT
                  ![call[p].orderId].status = SavedStatus(@, call[p].loaded, "in_progress"),
                  ![call[p].orderId].delivery =
                      SavedStatus(@, call[p].loadedRef, call[p].livreurId)]
  /\ Finish(p, 200)
  /\ UNCHANGED <<stock, promotions, deliveries, livreurs, before, env>>

\* ------------------------------------------------------------- acceptDelivery
\* the courier controller's acceptDelivery, livreur.service.js
\* isDeliveryAvailable(deliveryId) and acceptDelivery(livreurId, deliveryId)
StartAcceptDelivery(p, livreurId, deliveryId, seq) ==
  Begin(p, [Idle EXCEPT !.op = "acceptDelivery", !.pc = "avail",
                        !.livreurId = livreurId, !.deliveryId = deliveryId], seq)

\* service lines 28-31: delivery && delivery.status === 'pending'
IsDeliveryAvailableMutant(deliveryId) == TRUE
IsDeliveryAvailable(deliveryId) ==
  deliveryId \in DOMAIN deliveries /\ deliveries[deliveryId].status = "pending"

\* controller lines 221-225: isDeliveryAvailable, else Conflict
AcceptDeliveryAvailable(p) ==
  /\ call[p].op = "acceptDelivery" /\ call[p].pc = "avail"
  /\ IF IsDeliveryAvailable(call[p].deliveryId)
     THEN Goto(p, "loadLivreur")
     ELSE Finish(p, 409)
  /\ UNCHANGED <<store, before, env>>

\* service line 40: Livreur.findById
AcceptDeliveryLoadLivreur(p) ==
  /\ call[p].op = "acceptDelivery" /\ call[p].pc = "loadLivreur"
  /\ call' = [call EXCEPT ![p].pc = "loadDelivery",
                          ![p].livreurFound = call[p].livreurId \in Livreurs]
  /\ UNCHANGED <<store, before, env>>

\* service lines 41-53: Delivery.findById, the two refusals, the assignments
AcceptDeliveryLoadDelivery(p) ==
  /\ call[p].op = "acceptDelivery" /\ call[p].pc = "loadDelivery"
  /\ IF ~call[p].livreurFound \/ call[p].deliveryId \notin DOMAIN deliveries
     THEN Finish(p, 404)
     ELSE IF deliveries[call[p].deliveryId].status # "pending"
     THEN Finish(p, 409)
     ELSE call' = [call EXCEPT
                     ![p].pc = "saveDelivery",
                     ![p].loaded = deliveries[call[p].deliveryId].status,
                     ![p].loadedRef = deliveries[call[p].deliveryId].livreur]
  /\ UNCHANGED <<store, before, env>>

\* service line 55: delivery.save() of status and livreur
AcceptDeliverySaveDelivery(p) ==
  /\ call[p].op = "acceptDelivery" /\ call[p].pc = "saveDelivery"
  /\ deliveries' = [deliveries EXCEPT
       ![call[p].deliveryId].status = SavedStatus(@, call[p].loaded, "in_progress"),
       ![call[p].deliveryId].livreur =
           SavedStatus(@, call[p].loadedRef, call[p].livreurId)]
  /\ Goto(p, "saveLivreur")
  /\ UNCHANGED <<stock, orders, promotions, livreurs, before, env>>

\* service line 53: livreur.deliveriesAssigned.push(deliveryId)
PushDeliveryMutant(list, deliveryId) == list
PushDelivery(list, deliveryId) == Append(list, deliveryId)

\* service lines 53 and 56: livreur.save() of the pushed delivery ($push)
AcceptDeliverySaveLivreur(p) ==
  /\ call[p].op = "acceptDelivery" /\ call[p].pc = "saveLivreur"
  /\ livreurs' = [livreurs EXCEPT ![call[p].livreurId].deliveriesAssigned =
                    PushDelivery(@, call[p].deliveryId)]
  /\ Finish(p, 200)
  /\ UNCHANGED <<stock, orders, promotions, deliveries, before, env>>

\* service line 56: livreur.save() throws (the database does not answer)
\* after delivery.save() has succeeded
AcceptDeliverySaveLivreurFails(p) ==
  /\ call[p].op = "acceptDelivery" /\ call[p].pc = "saveLivreur"
  /\ Finish(p, 500)
  /\ UNCHANGED <<store, before, env>>

AcceptDeliveryStep(p) ==
  \/ AcceptDeliveryAvailable(p)
  \/ AcceptDeliveryLoadLivreur(p)
  \/ AcceptDeliveryLoadDelivery(p)
  \/ AcceptDeliverySaveDelivery(p)
  \/ AcceptDeliverySaveLivreur(p)

\* livreur.service.js updateDeliveryStatus(livreurId, deliveryId, { newStatus })
CourierStatuses == {"in_progress", "delivered", "cancelled"}

StartCourierUpdate(p, livreurId, deliveryId, newStatus, seq) ==
  /\ livreurId \in Livreurs =>
       livreurs[livreurId].performance.deliveriesCompleted < MaxCompleted
  /\ Begin(p, [Idle EXCEPT !.op = "courierUpdate", !.pc = "loadLivreur",
                           !.livreurId = livreurId, !.deliveryId = deliveryId,
                           !.newStatus = newStatus], seq)

\* line 82: Livreur.findById
CourierUpdateLoadLivreur(p) ==
  /\ call[p].op = "courierUpdate" /\ call[p].pc = "loadLivreur"
  /\ call' = [call EXCEPT
       ![p].pc = "loadDelivery",
       ![p].livreurFound = call[p].livreurId \in Livreurs,
       ![p].i = IF call[p].livreurId \in Livreurs
                THEN livreurs[call[p].livreurId].performance.deliveriesCompleted
                ELSE 0]
  /\ UNCHANGED <<store, before, env>>

\* lines 83-93: Delivery.findById, the refusals, the assignment of the status
CourierUpdateLoadDelivery(p) ==
  /\ call[p].op = "courierUpdate" /\ call[p].pc = "loadDelivery"
  /\ IF ~call[p].livreurFound \/ call[p].deliveryId \notin DOMAIN deliveries
     THEN Finish(p, 404)
     ELSE IF call[p].newStatus \notin CourierStatuses THEN Finish(p, 400)
     ELSE call' = [call EXCEPT
            ![p].pc = IF call[p].newStatus = "delivered" THEN "performance"
                      ELSE "saveDelivery",
            ![p].loaded = deliveries[call[p].deliveryId].status]
  /\ UNCHANGED <<store, before, env>>

\* livreur.model.js 118-124: updatePerformance adds one to deliveriesCompleted
updatePerformance(deliveriesCompleted) == deliveriesCompleted + 1

\* lines 95-98: deliveriesCompleted += 1, then updatePerformance, which adds
\* one more and saves the courier. averageDeliveryTime is computed there from
\* delivery.timeTaken, a path the delivery schema does not have: the save
\* stores the counter, or is refused for the average and the call fails.
CourierUpdatePerformance(p) ==
  /\ call[p].op = "courierUpdate" /\ call[p].pc = "performance"
  /\ \E saved \in BOOLEAN :
       IF saved
       THEN /\ livreurs' = [livreurs EXCEPT
                  ![call[p].livreurId].performance.deliveriesCompleted =
                      updatePerformance(call[p].i + 1)]
            /\ Goto(p, "saveDelivery")
       ELSE Finish(p, 500) /\ UNCHANGED livreurs
  /\ UNCHANGED <<stock, orders, promotions, deliveries, before, env>>

\* line 100: delivery.save()
CourierUpdateSaveDelivery(p) ==
  /\ call[p].op = "courierUpdate" /\ call[p].pc = "saveDelivery"
  /\ deliveries' = [deliveries EXCEPT ![call[p].deliveryId].status =
                      SavedStatus(@, call[p].loaded, call[p].newStatus)]
  /\ Goto(p, "saveLivreur")
  /\ UNCHANGED <<stock, orders, promotions, livreurs, before, env>>

\* line 101: livreur.save(), with nothing left to write
CourierUpdateSaveLivreur(p) ==
  /\ call[p].op = "courierUpdate" /\ call[p].pc = "saveLivreur"
  /\ Finish(p, 200)
  /\ UNCHANGED <<store, before, env>>

CourierUpdateStep(p) ==
  \/ CourierUpdateLoadLivreur(p)
  \/ CourierUpdateLoadDelivery(p)
  \/ CourierUpdatePerformance(p)
  \/ CourierUpdateSaveDelivery(p)
  \/ CourierUpdateSaveLivreur(p)

\* ----------------------------------------------------------- delivery service
\* part_010 getDeliveryById(deliveryId); part_000 updateDeliveryStatus begins
\* with the same call
DeliveryStatuses == {"pending", "in_progress", "delivered", "cancelled"}

StartGetDeliveryById(p, deliveryId, seq) ==
  Begin(p, [Idle EXCEPT !.op = "getDeliveryById", !.pc = "cacheGet",
                        !.deliveryId = deliveryId], seq)

\* part_000 lines 56-66: the delivery is looked up, the status is validated
HistoryRoom(deliveryId) ==
  deliveryId \in DOMAIN deliveries =>
    Len(deliveries[deliveryId].statusHistory) < MaxHistory
StartUpdateDeliveryStatusRequest(p, deliveryId, newStatus, seq) ==
  /\ HistoryRoom(deliveryId)
  /\ Begin(p, [Idle EXCEPT !.op = "updateDeliveryStatus", !.pc = "cacheGet",
                           !.deliveryId = deliveryId, !.newStatus = newStatus,
                           !.via = "controller"], seq)

\* getDeliveryById has returned value: the service call ends, the
\* controller goes on to validate the status and to call the service
Got(p, value) ==
  IF call[p].op = "getDeliveryById"
  THEN call' = [call EXCEPT ![p].pc = "done", ![p].http = 200, ![p].got = value]
  ELSE IF call[p].newStatus \notin DeliveryStatuses
  THEN call' = [call EXCEPT ![p].pc = "sent", ![p].http = 400, ![p].got = value]
  ELSE call' = [call EXCEPT ![p].pc = "readDelivery", ![p].got = value]
NotGot(p) ==
  IF call[p].op = "getDeliveryById" THEN Finish(p, 404)
  ELSE call' = [call EXCEPT ![p].pc = "sent", ![p].http = 404]

\* lines 52-55: redis.get
GetDeliveryCached(p) ==
  /\ call[p].pc = "cacheGet"
  /\ LET k == call[p].deliveryId
     IN IF k \in DOMAIN cache /\ cache[k] # <<>> THEN Got(p, cache[k])
        ELSE Goto(p, "findDelivery")
  /\ UNCHANGED <<store, before, env>>

\* lines 57-60: Delivery.findById
GetDeliveryFind(p) ==
  /\ call[p].pc = "findDelivery"
  /\ LET k == call[p].deliveryId
     IN IF k \notin DOMAIN deliveries THEN NotGot(p)
        ELSE call' = [call EXCEPT ![p].pc = "cacheSet",
                                  ![p].got = <<deliveries[k]>>]
  /\ UNCHANGED <<store, before, env>>

\* lines 63-64: redis.set
GetDeliveryCache(p) ==
  /\ call[p].pc = "cacheSet"
  /\ cache' = [cache EXCEPT ![call[p].deliveryId] = call[p].got]
  /\ Got(p, call[p].got)
  /\ UNCHANGED <<store, payments, now, before>>

GetDeliveryByIdStep(p) ==
  \/ GetDeliveryCached(p)
  \/ GetDeliveryFind(p)
  \/ GetDeliveryCache(p)

\* part_010 updateDeliveryStatus(deliveryId, newStatus)
StartUpdateDeliveryStatus(p, deliveryId, newStatus, seq) ==
  /\ HistoryRoom(deliveryId)
  /\ Begin(p, [Idle EXCEPT !.op = "updateDeliveryStatus", !.pc = "readDelivery",
                        !.deliveryId = deliveryId, !.newStatus = newStatus], seq)

\* lines 74-77: Delivery.findById
UpdateDeliveryStatusRead(p) ==
  /\ call[p].op = "updateDeliveryStatus" /\ call[p].pc = "readDelivery"
  /\ IF call[p].deliveryId \notin DOMAIN deliveries THEN Finish(p, 404)
     ELSE Goto(p, "saveStatus")
  /\ UNCHANGED <<store, before, env>>

\* delivery.model.js line 56: statusHistory.push({ status: newStatus })
PushStatus(history, newStatus) == Append(history, newStatus)

\* line 80: delivery.updateStatus(newStatus) (delivery.model.js 51-58)
UpdateDeliveryStatusSave(p) ==
  /\ call[p].op = "updateDeliveryStatus" /\ call[p].pc = "saveStatus"
  /\ IF call[p].newStatus \notin DeliveryStatuses
        \/ call[p].deliveryId \notin DOMAIN deliveries
     THEN Finish(p, 500) /\ UNCHANGED deliveries
     ELSE /\ deliveries' = [deliveries EXCEPT
                 ![call[p].deliveryId].status = call[p].newStatus,
                 ![call[p].deliveryId].statusHistory =
                     PushStatus(@, call[p].newStatus)]
          /\ Goto(p, IF call[p].newStatus = "delivered" THEN "queue"
                     ELSE "cacheDel")
  /\ UNCHANGED <<stock, orders, promotions, livreurs, before, env>>

\* lines 83-89: notificationQueue.add, which queues the job or throws
UpdateDeliveryStatusQueue(p) ==
  /\ call[p].op = "updateDeliveryStatus" /\ call[p].pc = "queue"
  /\ \E queued \in BOOLEAN :
       IF queued THEN Goto(p, "cacheDel") ELSE Finish(p, 500)
  /\ UNCHANGED <<store, before, env>>

\* lines 92-94: redis.del
UpdateDeliveryStatusDel(p) ==
  /\ call[p].op = "updateDeliveryStatus" /\ call[p].pc = "cacheDel"
  /\ cache' = [cache EXCEPT ![call[p].deliveryId] = <<>>]
  /\ Finish(p, 200)
  /\ UNCHANGED <<store, payments, now, before>>

UpdateDeliveryStatusStep(p) ==
  \/ UpdateDeliveryStatusRead(p)
  \/ UpdateDeliveryStatusSave(p)
  \/ UpdateDeliveryStatusQueue(p)
  \/ UpdateDeliveryStatusDel(p)

\* part_000 lines 74-86: the awaited notification, which sends or throws, for
\* a delivery now delivered or cancelled, and the response
UpdateDeliveryStatusRespond(p) ==
  /\ Served(p, "updateDeliveryStatus")
  /\ IF call[p].http # 200 THEN Send(p, call[p].http)
     ELSE IF call[p].newStatus \in {"delivered", "cancelled"}
          THEN \E sent \in BOOLEAN : Send(p, IF sent THEN 200 ELSE 500)
          ELSE Send(p, 200)
  /\ UNCHANGED <<store, before, env>>

\* part_010 deleteDelivery(deliveryId): the session's transaction keeps the
\* writes made with it until it is committed; each awaited call returns or
\* throws, and a throw goes through abortTransaction to the caller
StartDeleteDelivery(p, deliveryId, seq) ==
  Begin(p, [Idle EXCEPT !.op = "deleteDelivery", !.pc = "txFind",
                        !.deliveryId = deliveryId], seq)

\* lines 106-109: Delivery.findById(deliveryId).session(session)
DeleteDeliveryFind(p) ==
  /\ call[p].op = "deleteDelivery" /\ call[p].pc = "txFind"
  /\ \E ok \in BOOLEAN :
       IF ~ok THEN Finish(p, 500)
       ELSE IF call[p].deliveryId \notin DOMAIN deliveries THEN Finish(p, 404)
       ELSE call' = [call EXCEPT ![p].pc = "txOrder",
                        ![p].orderId = deliveries[call[p].deliveryId].order]
  /\ UNCHANGED <<store, before, env>>

\* line 111: Order.findById(delivery.order).session(session)
DeleteDeliveryOrder(p) ==
  /\ call[p].op = "deleteDelivery" /\ call[p].pc = "txOrder"
  /\ \E ok \in BOOLEAN :
       IF ~ok THEN Finish(p, 500)
       ELSE IF call[p].orderId \in 1..Len(orders) THEN Goto(p, "txSaveOrder")
       ELSE Goto(p, "txRemove")
  /\ UNCHANGED <<store, before, env>>

\* lines 113-114: order.delivery = null; order.save({ session })
DeleteDeliverySaveOrder(p) ==
  /\ call[p].op = "deleteDelivery" /\ call[p].pc = "txSaveOrder"
  /\ \E ok \in BOOLEAN :
       IF ~ok THEN Finish(p, 500)
       ELSE call' = [call EXCEPT ![p].pc = "txRemove",
                                 ![p].tx.order = call[p].orderId]
  /\ UNCHANGED <<store, before, env>>

\* line 117: delivery.remove({ session })
DeleteDeliveryRemove(p) ==
  /\ call[p].op = "deleteDelivery" /\ call[p].pc = "txRemove"
  /\ \E ok \in BOOLEAN :
       IF ~ok THEN Finish(p, 500)
       ELSE call' = [call EXCEPT ![p].pc = "commit", ![p].tx.remove = TRUE]
  /\ UNCHANGED <<store, before, env>>

\* what the committed transaction writes
CommittedOrders(tx) ==
  IF tx.order = 0 THEN orders
  ELSE [orders EXCEPT ![tx.order].delivery = "none"]
CommittedDeliveries(tx, deliveryId) ==
  IF tx.remove
  THEN [d \in DOMAIN deliveries \ {deliveryId} |-> deliveries[d]]
  ELSE deliveries

\* line 118: session.commitTransaction()
DeleteDeliveryCommit(p) ==
  /\ call[p].op = "deleteDelivery" /\ call[p].pc = "commit"
  /\ \E ok \in BOOLEAN :
       IF ~ok THEN Finish(p, 500) /\ UNCHANGED <<orders, deliveries>>
       ELSE /\ orders' = CommittedOrders(call[p].tx)
            /\ deliveries' = CommittedDeliveries(call[p].tx, call[p].deliveryId)
            /\ Goto(p, "redisDel")
  /\ UNCHANGED <<stock, promotions, livreurs, before, env>>

\* lines 121-122, 123-125: redis.del after the commit; when it throws the
\* catch block runs with the transaction already committed
DeleteDeliveryDel(p) ==
  /\ call[p].op = "deleteDelivery" /\ call[p].pc = "redisDel"
  /\ \E ok \in BOOLEAN :
       IF ok THEN cache' = [cache EXCEPT ![call[p].deliveryId] = <<>>]
                  /\ Finish(p, 200)
       ELSE Finish(p, 500) /\ UNCHANGED cache
  /\ UNCHANGED <<store, payments, now, before>>

DeleteDeliveryStep(p) ==
  \/ DeleteDeliveryFind(p)
  \/ DeleteDeliveryOrder(p)
  \/ DeleteDeliverySaveOrder(p)
  \/ DeleteDeliveryRemove(p)
  \/ DeleteDeliveryCommit(p)
  \/ DeleteDeliveryDel(p)

\* delivery.model.js calculateDistance(startCoords, endCoords)
StartCalculateDistance(p, startCoords, endCoords, seq) ==
  Begin(p, [Idle EXCEPT !.op = "calculateDistance", !.pc = "distance",
                        !.startCoords = startCoords,
                        !.endCoords = endCoords], seq)

CalculateDistance(p) ==
  /\ call[p].op = "calculateDistance" /\ call[p].pc = "distance"
  /\ call' = [call EXCEPT ![p].pc = "done", ![p].http = 200,
                 ![p].distance = calculateDistance(call[p].startCoords,
                                                   call[p].endCoords)]
  /\ UNCHANGED <<store, before, env>>

\* ----------------------------------------------------------------- promotions
\* time passes
Tick ==
  /\ now < MaxTime
  /\ now' = now + 1
  /\ UNCHANGED <<store, payments, cache, call, before>>

\* a caller of promotion.isValid(): Promotion.findById, then the method
StartIsValid(p, id, seq) ==
  Begin(p, [Idle EXCEPT !.op = "isValid", !.pc = "load", !.promoId = id], seq)

\* a caller of promotion.applyPromotion(userId, orderId)
StartApplyPromotion(p, id, userId, orderId, seq) ==
  Begin(p, [Idle EXCEPT !.op = "applyPromotion", !.pc = "load", !.promoId = id,
                        !.userId = userId, !.orderId = orderId], seq)

\* Promotion.findById: the document as stored, a private copy
PromotionLoad(p) ==
  /\ call[p].op \in {"isValid", "applyPromotion"} /\ call[p].pc = "load"
  /\ call' = [call EXCEPT ![p].pc = "call", ![p].doc = promotions[call[p].promoId]]
  /\ UNCHANGED <<store, before, env>>

\* part_020 lines 109-112: isValid() on the loaded document
IsValidCall(p) ==
  /\ call[p].op = "isValid" /\ call[p].pc = "call"
  /\ call' = [call EXCEPT ![p].pc = "done", ![p].http = 200, ![p].at = now,
                          ![p].result = IsValid(call[p].doc)]
  /\ UNCHANGED <<store, before, env>>

\* part_020 lines 121-122: the use that is counted and recorded
UsedOnceMutant(doc) == doc.usedCount
UsedOnce(doc) == doc.usedCount + 1

\* part_020 lines 117-135: applyPromotion on the loaded document; save()
\* sets usedCount and the period counters and pushes the redemption
ApplyPromotion(p) ==
  /\ call[p].op = "applyPromotion" /\ call[p].pc = "call"
  /\ LET doc == call[p].doc
         id == call[p].promoId
     IN IF ~IsValid(doc)
        THEN /\ call' = [call EXCEPT ![p].pc = "done", ![p].http = 500, ![p].at = now]
             /\ UNCHANGED promotions
        ELSE /\ promotions' = [promotions EXCEPT
                  ![id].usedCount = UsedOnce(doc),
                  ![id].redemptionHistory =
                      Append(@, [userId |-> call[p].userId, orderId |-> call[p].orderId]),
                  ![id].stats = [weekly |-> doc.stats.weekly + 1,
                                 monthly |-> doc.stats.monthly + 1,
                                 yearly |-> doc.stats.yearly + 1]]
             /\ call' = [call EXCEPT ![p].pc = "done", ![p].http = 200, ![p].at = now]
  /\ UNCHANGED <<stock, orders, deliveries, livreurs, before, env>>

\* ----------------------------------------------------------- findBestPromotion
\* part_008 findBestPromotion(userId, products)
StartFindBestPromotion(p, products, seq) ==
  Begin(p, [Idle EXCEPT !.op = "findBestPromotion", !.pc = "find",
                        !.body.products = products], seq)

\* lines 356-359: the filter of Promotion.find
Applicable(promo, products) ==
  /\ promo.isActive
  /\ \E k \in 1..Len(products) : products[k].productId \in promo.applicableProducts

\* lines 365-370: the discount of one promotion, in hundredths (the code
\* divides the percentage by 100, here the fixed value is multiplied by 100)
PromoDiscountMutant(promo, products) == SumItems(products) * promo.discountValue
PromoDiscount(promo, products) ==
  IF promo.discountType = "percentage"
  THEN SumItems(products) * promo.discountValue
  ELSE IF promo.discountType = "fixed" THEN promo.discountValue * 100
  ELSE 0

RECURSIVE BestOf(_, _, _, _)
\* lines 364-376: the loop over the promotions found, in the order found
BestOf(found, products, bestPromotion, maxDiscount) ==
  IF found = <<>> THEN bestPromotion
  ELSE LET discount == PromoDiscount(promotions[Head(found)], products)
       IN IF discount > maxDiscount
          THEN BestOf(Tail(found), products, Head(found), discount)
          ELSE BestOf(Tail(found), products, bestPromotion, maxDiscount)

\* the orders in which a query may return a set of documents
Orderings(S) ==
  {f \in [1..Cardinality(S) -> S] : \A i, j \in 1..Cardinality(S) : f[i] = f[j] => i = j}

\* lines 355-379: Promotion.find, then the loop
FindBestPromotion(p) ==
  /\ call[p].op = "findBestPromotion" /\ call[p].pc = "find"
  /\ LET products == call[p].body.products
         ids == {id \in DOMAIN promotions : Applicable(promotions[id], products)}
     IN \E found \in Orderings(ids) :
          call' = [call EXCEPT ![p].pc = "done", ![p].http = 200,
                                  ![p].best = BestOf(found, products, "none", 0)]
  /\ UNCHANGED <<store, before, env>>

\* --------------------------------------------------------------- the requests
\* request bodies the Joi schema of createOrder lets through: any list of
\* line items (here of at most two), repeated products included
ItemLists(ids, prices) ==
  LET Items == [productId : ids, quantity : Quantities, price : prices]
  IN {<<>>} \cup {<<a>> : a \in Items} \cup {<<a, b>> : a \in Items, b \in Items}

StockBodies ==
  [products : ItemLists(ProductIds, {1}), promotion : {"none"}, totalPrice : {0}]

\* a percentage promotion of 50, a fixed one of 5 and an inactive one, with
\* the schema's defaults (usageLimit 1, usedCount 0, no expiration date)
DefaultPromotions ==
  [id \in PromoIds \ {"px"} |->
     [NoPromotion EXCEPT
        !.discountType = IF id = "fix" THEN "fixed" ELSE "percentage",
        !.discountValue = IF id = "fix" THEN 5 ELSE 50,
        !.isActive = id # "off",
        !.usageLimit = 1]]

Init ==
  /\ stock \in [Products -> 0..MaxStock]
  /\ orders = <<>>
  /\ promotions = DefaultPromotions
  /\ deliveries = [d \in Deliveries |-> NoDelivery]
  /\ livreurs = [l \in Livreurs |-> NoLivreur]
  /\ payments = {}
  /\ cache = [d \in Deliveries |-> <<>>]
  /\ now = 1
  /\ call = [p \in Procs |-> Idle]
  /\ before = NoSnapshot

CreateOrderStep(p) ==
  \/ CreateOrderCheck(p)
  \/ CreateOrderPromo(p)
  \/ CreateOrderPersist(p)
  \/ CreateOrderDec(p)

UpdateOrderStatusStep(p) ==
  \/ UpdateOrderStatusRead(p)
  \/ UpdateOrderStatusSave(p)

CancelOrderStep(p) ==
  \/ CancelOrderRead(p)
  \/ CancelOrderRestore(p)
  \/ CancelOrderSave(p)

AssignOrderStep(p) ==
  \/ AssignOrderAvailable(p)
  \/ AssignOrderRead(p)
  \/ AssignOrderSave(p)

\* placements served one at a time
NextPlace ==
  \E p \in {"r1"} :
    \/ \E body \in StockBodies : StartCreateOrder(p, body, MaxOrders, TRUE)
    \/ CreateOrderStep(p)
    \/ Return(p)
SpecPlace == Init /\ [][NextPlace]_vars

\* the orders whose life is followed: one or two line items, of one product
\* or of two, each product in its own quantity
LifeBodies ==
  [products : {l \in ItemLists(Products, {1}) :
                 \A k \in 1..Len(l) :
                   l[k].quantity = IF l[k].productId = "p1" THEN 1 ELSE 2},
   promotion : {"none"}, totalPrice : {0}]

\* requests served one at a time: place, update, cancel
NextLife ==
  \E p \in {"r1"} :
    \/ \E body \in LifeBodies : StartCreateOrder(p, body, MaxOrders, TRUE)
    \/ \E o \in 1..(MaxOrders + 1), s \in ValidOrderStatuses \cup {"bogus"} :
         StartUpdateOrderStatus(p, o, s, TRUE)
    \/ \E o \in 1..(MaxOrders + 1) : StartCancelOrder(p, o, TRUE)
    \/ CreateOrderStep(p)
    \/ UpdateOrderStatusStep(p)
    \/ CancelOrderStep(p)
    \/ Return(p)
SpecLife == Init /\ [][NextLife]_vars

\* requests served one at a time: place, update, cancel, assign
NextSeq ==
  \E p \in {"r1"} :
    \/ \E body \in LifeBodies : StartCreateOrder(p, body, MaxOrders, TRUE)
    \/ \E o \in 1..(MaxOrders + 1), s \in ValidOrderStatuses \cup {"bogus"} :
         StartUpdateOrderStatus(p, o, s, TRUE)
    \/ \E o \in 1..(MaxOrders + 1) : StartCancelOrder(p, o, TRUE)
    \/ \E o \in 1..(MaxOrders + 1) : StartAssignOrder(p, o, "l1", TRUE)
    \/ CreateOrderStep(p)
    \/ UpdateOrderStatusStep(p)
    \/ CancelOrderStep(p)
    \/ AssignOrderStep(p)
    \/ Return(p)
SpecSeq == Init /\ [][NextSeq]_vars

\* placements and cancellations served concurrently, their steps interleaved
\* (orders of one line item: what goes wrong here is due to the interleaving)
RaceBodies ==
  [products : {<<[productId |-> "p1", quantity |-> q, price |-> 1]>> : q \in Quantities},
   promotion : {"none"}, totalPrice : {0}]
InitRace == Init /\ stock["p2"] = 0
Next ==
  \E p \in Procs :
    \/ \E body \in RaceBodies : StartCreateOrder(p, body, MaxRaceOrders, FALSE)
    \/ \E o \in 1..MaxRaceOrders : StartCancelOrder(p, o, FALSE)
    \/ CreateOrderStep(p)
    \/ CancelOrderStep(p)
    \/ Return(p)
Spec == InitRace /\ [][Next]_vars

\* placements that differ in prices, promotion and declared total
PriceBodies ==
  [products : ItemLists({"p1"}, {10, 20}),
   promotion : PromoIds \cup {"none"}, totalPrice : {0, 100}]
NextPrice ==
  \E p \in {"r1"} :
    \/ \E body \in PriceBodies : StartCreateOrder(p, body, MaxOrders, TRUE)
    \/ CreateOrderStep(p)
    \/ Return(p)
SpecPrice == InitRace /\ [][NextPrice]_vars

\* promotions in every state of use: active or not, used u times of a limit
\* l, with or without expiration date
PromoDocs ==
  {[DefaultPromotions["pct"] EXCEPT
      !.isActive = a, !.usageLimit = l, !.usedCount = u, !.expirationDate = e,
      !.redemptionHistory = [k \in 1..u |-> [userId |-> "u1", orderId |-> 0]],
      !.stats = [weekly |-> u, monthly |-> u, yearly |-> u]]
     : a \in BOOLEAN, l \in 0..MaxUsage, u \in 0..MaxUsage,
       e \in {NoDate} \cup 1..MaxTime}
InitPromo ==
  /\ stock = [prod \in Products |-> MaxStock]
  /\ orders = <<>>
  /\ \E d \in PromoDocs : promotions = [DefaultPromotions EXCEPT !["pct"] = d]
  /\ deliveries = [d \in Deliveries |-> NoDelivery]
  /\ livreurs = [l \in Livreurs |-> NoLivreur]
  /\ payments = {}
  /\ cache = [d \in Deliveries |-> <<>>]
  /\ now = 1
  /\ call = [p \in Procs |-> Idle]
  /\ before = NoSnapshot

\* isValid and applyPromotion called one at a time, while time passes
NextPromoSeq ==
  \/ Tick
  \/ \E p \in {"r1"} :
       \/ StartIsValid(p, "pct", TRUE)
       \/ \E u \in Users : StartApplyPromotion(p, "pct", u, 1, TRUE)
       \/ PromotionLoad(p)
       \/ IsValidCall(p)
       \/ ApplyPromotion(p)
       \/ Return(p)
SpecPromoSeq == InitPromo /\ [][NextPromoSeq]_vars

\* placements that carry the promotion and redemptions of it, served
\* concurrently; the promotion starts within its limit
PromoBodies ==
  [products : {<<[productId |-> "p1", quantity |-> 1, price |-> 10]>>},
   promotion : {"pct"}, totalPrice : {10}]
InitPromoRace ==
  InitPromo /\ promotions["pct"].usedCount <= promotions["pct"].usageLimit
NextPromo ==
  \/ Tick
  \/ \E p \in Procs :
       \/ \E body \in PromoBodies : StartCreateOrder(p, body, MaxRaceOrders, FALSE)
       \/ \E u \in Users : StartApplyPromotion(p, "pct", u, 1, FALSE)
       \/ CreateOrderStep(p)
       \/ PromotionLoad(p)
       \/ ApplyPromotion(p)
       \/ Return(p)
SpecPromo == InitPromoRace /\ [][NextPromo]_vars

\* promotions of either type, of a small or a large value, active or not,
\* for one product, the other or none
BestDocs(type) ==
  {[DefaultPromotions["pct"] EXCEPT
      !.discountType = type, !.discountValue = v, !.isActive = a,
      !.applicableProducts = ps]
     : v \in {5, 50}, a \in BOOLEAN, ps \in {{}, {"p1"}, {"p1", "p2"}}}
InitBest ==
  /\ stock = [prod \in Products |-> 0]
  /\ orders = <<>>
  /\ \E a \in BestDocs("percentage"), b \in BestDocs("fixed"), c \in BestDocs("percentage") :
       promotions = [DefaultPromotions EXCEPT !["pct"] = a, !["fix"] = b, !["off"] = c]
  /\ deliveries = [d \in Deliveries |-> NoDelivery]
  /\ livreurs = [l \in Livreurs |-> NoLivreur]
  /\ payments = {}
  /\ cache = [d \in Deliveries |-> <<>>]
  /\ now = 1
  /\ call = [p \in Procs |-> Idle]
  /\ before = NoSnapshot
BestItems == ItemLists(Products, {0, 10})
NextBest ==
  \E p \in {"r1"} :
    \/ \E products \in BestItems : StartFindBestPromotion(p, products, TRUE)
    \/ FindBestPromotion(p)
    \/ Return(p)
SpecBest == InitBest /\ [][NextBest]_vars

\* promotions that have been redeemed or not, and that end at some date or
\* never: createOrder raises usedCount, and the clock passes expirationDate
SpentDocs(type) ==
  {[DefaultPromotions["pct"] EXCEPT
      !.discountType = type, !.isActive = a, !.usedCount = u,
      !.expirationDate = e, !.applicableProducts = {"p1"}]
     : a \in BOOLEAN, u \in {0, 1}, e \in {NoDate, 1}}
InitSpent ==
  /\ stock = [prod \in Products |-> 0]
  /\ orders = <<>>
  /\ \E a \in SpentDocs("percentage"), b \in SpentDocs("fixed") :
       promotions = [DefaultPromotions EXCEPT !["pct"] = a, !["fix"] = b]
  /\ deliveries = [d \in Deliveries |-> NoDelivery]
  /\ livreurs = [l \in Livreurs |-> NoLivreur]
  /\ payments = {}
  /\ cache = [d \in Deliveries |-> <<>>]
  /\ now = 1
  /\ call = [p \in Procs |-> Idle]
  /\ before = NoSnapshot
SpentItems == ItemLists({"p1"}, {10})
NextSpent ==
  \/ Tick
  \/ \E p \in {"r1"} :
       \/ \E products \in SpentItems : StartFindBestPromotion(p, products, TRUE)
       \/ FindBestPromotion(p)
       \/ Return(p)
SpecSpent == InitSpent /\ [][NextSpent]_vars

\* cancellation requests on an order that has been paid for, or not
PaymentStatuses == {"pending", "completed", "failed"}
InitRefund ==
  /\ stock \in [Products -> 0..MaxStock]
  /\ \E body \in LifeBodies, s \in ValidOrderStatuses :
       orders = <<[products |-> body.products, promotion |-> "none",
                   totalPrice |-> StoredTotal(body), status |-> s,
                   delivery |-> "none"]>>
  /\ promotions = DefaultPromotions
  /\ deliveries = [d \in Deliveries |-> NoDelivery]
  /\ livreurs = [l \in Livreurs |-> NoLivreur]
  /\ payments \in {{}} \cup {{[order |-> 1, type |-> "payment", status |-> s]} :
                                s \in PaymentStatuses}
  /\ cache = [d \in Deliveries |-> <<>>]
  /\ now = 1
  /\ call = [p \in Procs |-> Idle]
  /\ before = NoSnapshot
NextRefund ==
  \E p \in {"r1"} :
    \/ \E o \in 1..2 : StartCancelOrderRequest(p, o, TRUE)
    \/ CancelOrderStep(p)
    \/ CancelOrderRespond(p)
    \/ Return(p)
SpecRefund == InitRefund /\ [][NextRefund]_vars

\* order and delivery requests through their controllers, one at a time
NextNotify ==
  \E p \in {"r1"} :
    \/ \E body \in LifeBodies : StartCreateOrderRequest(p, body, MaxOrders, TRUE)
    \/ \E d \in {"d1", "d0"}, s \in DeliveryStatuses \cup {"bogus"} :
         StartUpdateDeliveryStatusRequest(p, d, s, TRUE)
    \/ CreateOrderStep(p)
    \/ CreateOrderRespond(p)
    \/ GetDeliveryByIdStep(p)
    \/ UpdateDeliveryStatusStep(p)
    \/ UpdateDeliveryStatusRespond(p)
    \/ Return(p)
SpecNotify == Init /\ [][NextNotify]_vars

\* two placements at a time, of one line item, with or without promotion,
\* each with a declared total of its own
PairBodies ==
  [products : {<<[productId |-> "p1", quantity |-> q, price |-> 10]>> : q \in Quantities},
   promotion : {"none", "pct"}, totalPrice : {0, 100}]
NextPair ==
  \E p \in Procs :
    \/ \E body \in PairBodies : StartCreateOrder(p, body, MaxRaceOrders, FALSE)
    \/ CreateOrderStep(p)
    \/ Return(p)
SpecPair == InitRace /\ [][NextPair]_vars

\* couriers accepting deliveries
InitDelivery == Init /\ stock = [prod \in Products |-> 0]
DeliveryStart(p, seq) ==
  \E l \in LivreurIds, d \in DeliveryIds : StartAcceptDelivery(p, l, d, seq)

\* one at a time
NextDeliverySeq ==
  \E p \in {"r1"} : DeliveryStart(p, TRUE) \/ AcceptDeliveryStep(p) \/ Return(p)
SpecDeliverySeq == InitDelivery /\ [][NextDeliverySeq]_vars

\* concurrently, their steps interleaved
NextDelivery ==
  \E p \in Procs : DeliveryStart(p, FALSE) \/ AcceptDeliveryStep(p) \/ Return(p)
SpecDelivery == InitDelivery /\ [][NextDelivery]_vars

\* reads through the cache while the delivery service and a courier write
NextCache ==
  \E p \in Procs :
    \/ \E d \in {"d1", "d0"} : StartGetDeliveryById(p, d, FALSE)
    \/ \E d \in {"d1", "d0"}, s \in {"in_progress", "delivered"} :
         StartUpdateDeliveryStatus(p, d, s, FALSE)
    \/ \E l \in {"l1"}, d \in {"d1"} : StartAcceptDelivery(p, l, d, FALSE)
    \/ GetDeliveryByIdStep(p)
    \/ UpdateDeliveryStatusStep(p)
    \/ AcceptDeliveryStep(p)
    \/ Return(p)
SpecCache == InitDelivery /\ [][NextCache]_vars

\* deletions of deliveries of an order, of no order, or that do not exist
InitDelete ==
  /\ stock = [prod \in Products |-> 0]
  /\ \E s \in ValidOrderStatuses, ref \in {"d1", "none"} :
       orders = <<[products |-> NoItems, promotion |-> "none", totalPrice |-> 0,
                   status |-> s, delivery |-> ref]>>
  /\ promotions = DefaultPromotions
  /\ \E s \in DeliveryStatuses :
       deliveries = [d \in Deliveries |->
                       [order |-> IF d = "d1" THEN 1 ELSE 2,
                        status |-> s, livreur |-> "none",
                        statusHistory |-> <<>>]]
  /\ livreurs = [l \in Livreurs |-> NoLivreur]
  /\ payments = {}
  /\ cache \in [Deliveries -> {<<>>}]
  /\ now = 1
  /\ call = [p \in Procs |-> Idle]
  /\ before = NoSnapshot
NextDelete ==
  \E p \in {"r1"} :
    \/ \E d \in DeliveryIds : StartDeleteDelivery(p, d, TRUE)
    \/ DeleteDeliveryStep(p)
    \/ Return(p)
SpecDelete == InitDelete /\ [][NextDelete]_vars

\* placements served one at a time, whose stock writes may fail
NextFail ==
  \E p \in {"r1"} :
    \/ \E body \in LifeBodies : StartCreateOrder(p, body, MaxOrders, TRUE)
    \/ CreateOrderStep(p)
    \/ CreateOrderDecFails(p)
    \/ Return(p)
SpecFail == Init /\ [][NextFail]_vars

\* couriers' assignment requests on an order, their steps interleaved
NextAssign ==
  \E p \in Procs :
    \/ \E o \in 1..2, l \in Livreurs : StartAssignOrder(p, o, l, FALSE)
    \/ AssignOrderStep(p)
    \/ Return(p)
SpecAssign == InitRefund /\ [][NextAssign]_vars

\* the life of orders placed on a full stock
InitFull == Init /\ stock = [prod \in Products |-> MaxStock]
SpecConserve == InitFull /\ [][NextLife]_vars

\* cancellations of an order whose products are out of stock, their steps
\* interleaved
InitCancel == InitRefund /\ stock = [prod \in Products |-> 0]
NextCancel ==
  \E p \in Procs :
    \/ \E o \in 1..2 : StartCancelOrder(p, o, FALSE)
    \/ CancelOrderStep(p)
    \/ Return(p)
SpecCancel == InitCancel /\ [][NextCancel]_vars

\* couriers accepting deliveries one at a time, the courier's save failing
\* or not
NextAccept ==
  \E p \in {"r1"} :
    \/ DeliveryStart(p, TRUE)
    \/ AcceptDeliveryStep(p)
    \/ AcceptDeliverySaveLivreurFails(p)
    \/ Return(p)
SpecAccept == InitDelivery /\ [][NextAccept]_vars

\* a delivery accepted and taken through its statuses, by the delivery
\* service and by the courier service, one request at a time
NextHistory ==
  \E p \in {"r1"} :
    \/ \E l \in {"l1"}, d \in {"d1"} : StartAcceptDelivery(p, l, d, TRUE)
    \/ \E d \in {"d1", "d0"}, s \in DeliveryStatuses :
         StartUpdateDeliveryStatus(p, d, s, TRUE)
    \/ \E l \in LivreurIds, d \in {"d1", "d0"}, s \in DeliveryStatuses :
         StartCourierUpdate(p, l, d, s, TRUE)
    \/ AcceptDeliveryStep(p)
    \/ UpdateDeliveryStatusStep(p)
    \/ CourierUpdateStep(p)
    \/ Return(p)
SpecHistory == InitDelivery /\ [][NextHistory]_vars

\* distances between places
Paris == [latitude |-> 488566, longitude |-> 23522]
Lyon == [latitude |-> 457640, longitude |-> 48357]
Places ==
  {Paris, Lyon,
   [latitude |-> 432965, longitude |-> 53698],
   [latitude |-> 436047, longitude |-> 14442],
   [latitude |-> 472184, longitude |-> -15536],
   [latitude |-> 485734, longitude |-> 77521],
   [latitude |-> 448378, longitude |-> -5792],
   [latitude |-> 506292, longitude |-> 30573],
   [latitude |-> 481173, longitude |-> -16778],
   [latitude |-> 126392, longitude |-> -80029],
   [latitude |-> 0, longitude |-> 0]}
NextDistance ==
  \E p \in {"r1"} :
    \/ \E from \in Places, to \in Places : StartCalculateDistance(p, from, to, TRUE)
    \/ CalculateDistance(p)
    \/ Return(p)
SpecDistance == InitDelivery /\ [][NextDistance]_vars

\* ------------------------------------------------------------------ claims
Done(p, op) == call[p].op = op /\ call[p].pc = "done"
Items(p) == call[p].body.products

\* C1 as stated: after a successful createOrder the stock of each line
\* item's product is its stock before the call minus the quantity of that
\* line item, and the stock of every product no line item names is unchanged.
C1_PerLineItem ==
  \A p \in Procs :
    Done(p, "createOrder") /\ call[p].http = 201 =>
      /\ \A k \in 1..Len(Items(p)) :
           stock[Items(p)[k].productId]
             = before.stock[Items(p)[k].productId] - Items(p)[k].quantity
      /\ \A prod \in Products :
           QtyOf(Items(p), prod) = 0 => stock[prod] = before.stock[prod]

\* C1 amended: after a successful createOrder served on its own the stock of
\* every product is its stock before the call minus the sum of the quantities
\* of the line items that name it (so unchanged when none names it).
C1_StockDecrement ==
  \A p \in Procs :
    Done(p, "createOrder") /\ call[p].http = 201 =>
      \A prod \in Products :
        stock[prod] = before.stock[prod] - QtyOf(Items(p), prod)

C1_Witness ==
  \E p \in Procs :
    /\ Done(p, "createOrder") /\ call[p].http = 201
    /\ Len(Items(p)) = 2
    /\ Items(p)[1].productId = Items(p)[2].productId
    /\ stock # before.stock

\* the discount a promotion yields on a subtotal
Discount(id, subtotal) ==
  IF id = "none" THEN 0
  ELSE IF promotions[id].discountType = "percentage"
       THEN (subtotal * promotions[id].discountValue) \div 100
       ELSE promotions[id].discountValue

\* C2: the totalPrice a successful createOrder persists is the sum of
\* quantity x price over the line items minus the discount of the supplied
\* promotion (the plain sum without promotion).
C2_DiscountedTotal ==
  \A p \in Procs :
    Done(p, "createOrder") /\ call[p].http = 201 =>
      orders[call[p].orderId].totalPrice
        = SumItems(Items(p)) - Discount(call[p].body.promotion, SumItems(Items(p)))

\* a line item whose product exists and had less stock than it asks for
Short(item, s) ==
  item.productId \in Products /\ s[item.productId] < item.quantity
SomeShort(p) == \E k \in 1..Len(Items(p)) : Short(Items(p)[k], before.stock)
\* a line item naming no product comes before the first short one
MissingBeforeShort(p) ==
  \E j \in 1..Len(Items(p)) :
    /\ Items(p)[j].productId \notin Products
    /\ \A k \in 1..j : ~Short(Items(p)[k], before.stock)

\* C3 as stated: a createOrder with a line item short of stock fails with 400,
\* persists no order and leaves every stock unchanged.
C3_ShortIs400 ==
  \A p \in Procs :
    Done(p, "createOrder") /\ SomeShort(p) =>
      call[p].http = 400 /\ orders = before.orders /\ stock = before.stock

\* C3 amended: such a createOrder fails with 400, or with 404 when a line
\* item before the first short one names a product that does not exist; no
\* order is persisted and every stock is unchanged.
C3_ShortFails ==
  \A p \in Procs :
    Done(p, "createOrder") /\ SomeShort(p) =>
      /\ call[p].http = IF MissingBeforeShort(p) THEN 404 ELSE 400
      /\ orders = before.orders
      /\ stock = before.stock

C3_Witness ==
  \E p \in Procs :
    /\ Done(p, "createOrder") /\ call[p].http = 400
    /\ Len(Items(p)) = 2
    /\ ~Short(Items(p)[1], before.stock)
    /\ Short(Items(p)[2], before.stock)

\* the order a cancelOrder or updateOrderStatus in flight was called on, as
\* it was when the call began
Existed(p) == call[p].orderId <= Len(before.orders)
Was(p) == before.orders[call[p].orderId]

\* C4: cancelOrder on a pending order sets its status to cancelled and
\* raises the stock of every product by the quantity the order holds of it.
C4_CancelPending ==
  \A p \in Procs :
    Done(p, "cancelOrder") /\ Existed(p) /\ Was(p).status = "pending" =>
      /\ call[p].http = 200
      /\ orders[call[p].orderId].status = "cancelled"
      /\ \A prod \in Products :
           stock[prod] = before.stock[prod] + QtyOf(Was(p).products, prod)

C4_Witness ==
  \E p \in Procs :
    /\ Done(p, "cancelOrder") /\ Existed(p) /\ Was(p).status = "pending"
    /\ Len(Was(p).products) = 2
    /\ stock # before.stock

\* C5: cancelOrder on a completed or cancelled order fails with 400 and
\* changes neither an order nor a stock.
C5_CancelTerminal ==
  \A p \in Procs :
    Done(p, "cancelOrder") /\ Existed(p)
      /\ Was(p).status \in {"completed", "cancelled"} =>
        call[p].http = 400 /\ orders = before.orders /\ stock = before.stock

C5_Witness ==
  \E p \in Procs :
    /\ Done(p, "cancelOrder") /\ Existed(p) /\ Was(p).status = "completed"
    /\ Was(p).products # <<>>
    /\ call[p].http = 400

\* C6: once the status of an order is completed or cancelled, no step of a
\* later updateOrderStatus, cancelOrder or assignOrderToLivreur changes it.
C6_TerminalStays ==
  [][\A o \in 1..Len(orders) :
       orders[o].status \in {"completed", "cancelled"} =>
         orders'[o].status = orders[o].status]_vars

\* C7: updateOrderStatus on an existing order with a status outside the five
\* order statuses fails with 400 and leaves the order unchanged.
C7_InvalidStatus ==
  \A p \in Procs :
    Done(p, "updateOrderStatus") /\ Existed(p)
      /\ call[p].newStatus \notin
           {"pending", "accepted", "in_progress", "completed", "cancelled"} =>
        call[p].http = 400 /\ orders = before.orders

C7_Witness ==
  \E p \in Procs :
    /\ Done(p, "updateOrderStatus") /\ Existed(p)
    /\ call[p].newStatus = "bogus"
    /\ call[p].http = 400

\* C8: no product's stock is negative in any reachable state, whatever
\* placements and cancellations are served and however they interleave.
C8_StockNonNegative == \A prod \in Products : stock[prod] >= 0

\* C9: acceptDelivery on a delivery that is not pending fails with 409 and
\* changes no delivery (status, courier) and no courier's deliveriesAssigned.
C9_AcceptNotPending ==
  \A p \in Procs :
    Done(p, "acceptDelivery") /\ call[p].deliveryId \in Deliveries
      /\ before.deliveries[call[p].deliveryId].status # "pending" =>
        /\ call[p].http = 409
        /\ deliveries = before.deliveries
        /\ livreurs = before.livreurs

C9_Witness ==
  \E p \in Procs :
    /\ Done(p, "acceptDelivery") /\ call[p].deliveryId \in Deliveries
    /\ before.deliveries[call[p].deliveryId].status = "in_progress"
    /\ before.deliveries[call[p].deliveryId].livreur # call[p].livreurId
    /\ call[p].http = 409

\* the deliveries in a courier's deliveriesAssigned list
Assigned(l) ==
  {livreurs[l].deliveriesAssigned[k] : k \in 1..Len(livreurs[l].deliveriesAssigned)}

\* C10: however the acceptDelivery calls of two couriers on one pending
\* delivery interleave, the delivery is in the deliveriesAssigned list of at
\* most one courier.
C10_OneCourier ==
  \A d \in Deliveries :
    Cardinality({l \in Livreurs : d \in Assigned(l)}) <= 1

\* C11: acceptDelivery by an existing courier on an existing pending delivery
\* answers 200, sets the delivery to in_progress with the caller as courier,
\* and appends the delivery once to the caller's deliveriesAssigned, leaving
\* every other delivery and courier as they were.
C11_AcceptPending ==
  \A p \in Procs :
    Done(p, "acceptDelivery") /\ call[p].livreurId \in Livreurs
      /\ call[p].deliveryId \in Deliveries
      /\ before.deliveries[call[p].deliveryId].status = "pending" =>
        /\ call[p].http = 200
        /\ deliveries = [before.deliveries EXCEPT
                           ![call[p].deliveryId].status = "in_progress",
                           ![call[p].deliveryId].livreur = call[p].livreurId]
        /\ livreurs = [before.livreurs EXCEPT ![call[p].livreurId].deliveriesAssigned =
                         Append(@, call[p].deliveryId)]

C11_Witness ==
  \E p \in Procs :
    /\ Done(p, "acceptDelivery") /\ call[p].http = 200
    /\ Len(livreurs[call[p].livreurId].deliveriesAssigned) = 2
    /\ before.deliveries[call[p].deliveryId].status = "pending"

\* the promotion a call was made on, as it was when the call began
PromoWas(p) == before.promotions[call[p].promoId]

\* C12: isValid() is true exactly when the promotion is active, used fewer
\* times than its limit, and without expiration date or not past it.
C12_IsValid ==
  \A p \in Procs :
    Done(p, "isValid") =>
      (call[p].result <=>
         /\ PromoWas(p).isActive
         /\ PromoWas(p).usedCount < PromoWas(p).usageLimit
         /\ (PromoWas(p).expirationDate = NoDate
              \/ ~(call[p].at > PromoWas(p).expirationDate)))

\* true at the limit's edge, false only for the expiration date
C12_Witness ==
  \E p \in Procs :
    /\ Done(p, "isValid") /\ ~call[p].result
    /\ PromoWas(p).isActive
    /\ PromoWas(p).usedCount + 1 = PromoWas(p).usageLimit
    /\ PromoWas(p).expirationDate # NoDate
    /\ call[p].at = PromoWas(p).expirationDate + 1

\* the redemption an applyPromotion call records
Redemption(p) == [userId |-> call[p].userId, orderId |-> call[p].orderId]

\* C13: applyPromotion on a promotion that is not valid is rejected and
\* leaves the promotion (usedCount, redemption history, period counters) as
\* it was; on a valid promotion it raises usedCount by one and appends one
\* redemption record of the given user and order.
C13_ApplyPromotion ==
  \A p \in Procs :
    Done(p, "applyPromotion") =>
      IF IsValidAt(PromoWas(p), call[p].at)
      THEN /\ call[p].http = 200
           /\ promotions[call[p].promoId].usedCount = PromoWas(p).usedCount + 1
           /\ promotions[call[p].promoId].redemptionHistory
                = Append(PromoWas(p).redemptionHistory, Redemption(p))
      ELSE /\ call[p].http # 200
           /\ promotions = before.promotions

\* rejected at the limit's edge: active, not expired, used usageLimit times
C13_Witness ==
  \E p \in Procs :
    /\ Done(p, "applyPromotion") /\ call[p].http # 200
    /\ PromoWas(p).isActive /\ PromoWas(p).expirationDate = NoDate
    /\ PromoWas(p).usedCount = PromoWas(p).usageLimit
    /\ PromoWas(p).usedCount > 0

\* the successful uses of a promotion: its recorded redemptions and the
\* orders placed with it
Uses(id) ==
  Len(promotions[id].redemptionHistory)
    + Cardinality({o \in 1..Len(orders) : orders[o].promotion = id})

\* C14: however placements carrying a promotion and applyPromotion calls
\* interleave, the promotion is used at most usageLimit times, and once the
\* calls have ended usedCount counts every use.
C14_UsageLimit ==
  \A id \in DOMAIN promotions :
    /\ Uses(id) <= promotions[id].usageLimit
    /\ (\A p \in Procs : call[p].pc \in {"idle", "done"}) =>
         promotions[id].usedCount = Uses(id)

\* the candidates of a findBestPromotion call: the active promotions with
\* an applicable product among the order's products
Candidates(p) ==
  {id \in DOMAIN promotions :
     /\ promotions[id].isActive
     /\ promotions[id].applicableProducts
          \cap {Items(p)[k].productId : k \in 1..Len(Items(p))} # {}}
\* what a candidate takes off the order, in hundredths
Yield(id, p) ==
  IF promotions[id].discountType = "percentage"
  THEN SumItems(Items(p)) * promotions[id].discountValue
  ELSE 100 * promotions[id].discountValue

\* C15: findBestPromotion returns a candidate of maximal discount, and null
\* only when no candidate has a positive discount.
C15_BestPromotion ==
  \A p \in Procs :
    Done(p, "findBestPromotion") =>
      IF call[p].best = "none"
      THEN \A c \in Candidates(p) : Yield(c, p) <= 0
      ELSE /\ call[p].best \in Candidates(p)
           /\ \A c \in Candidates(p) : Yield(c, p) <= Yield(call[p].best, p)

\* a fixed promotion wins over two percentage promotions that yield less
C15_Witness ==
  \E p \in Procs :
    /\ Done(p, "findBestPromotion") /\ call[p].best = "fix"
    /\ Cardinality(Candidates(p)) = 3
    /\ \A c \in Candidates(p) \ {"fix"} : 0 < Yield(c, p) /\ Yield(c, p) < Yield("fix", p)

\* two placements that have succeeded on requests differing at most in the
\* declared total
SameButDeclared(p, q) ==
  /\ Done(p, "createOrder") /\ call[p].http = 201
  /\ Done(q, "createOrder") /\ call[q].http = 201
  /\ Items(p) = Items(q)
  /\ call[p].body.promotion = call[q].body.promotion

\* C16: two createOrder requests that differ only in the declared totalPrice
\* persist orders of the same totalPrice.
C16_DeclaredIgnored ==
  \A p, q \in Procs :
    SameButDeclared(p, q) =>
      orders[call[p].orderId].totalPrice = orders[call[q].orderId].totalPrice

C16_Witness ==
  \E p, q \in Procs :
    /\ SameButDeclared(p, q)
    /\ call[p].declared = 0 /\ call[q].declared = 100
    /\ call[p].body.promotion = "pct"

\* the request has been answered by the controller
Sent(p, op) == call[p].op = op /\ call[p].pc = "sent"
Paid(orderId) ==
  \E pay \in payments :
    pay.order = orderId /\ pay.type = "payment" /\ pay.status = "completed"
Refunded(orderId) ==
  \E pay \in payments : pay.order = orderId /\ pay.type = "refund"

\* C17: when the cancel-order request succeeds on an order whose payment was
\* paid, a refund has been initiated for it; none is initiated when the payment
\* was not paid or the cancellation was rejected.
C17_RefundOnCancel ==
  \A p \in Procs :
    Sent(p, "cancelOrder") =>
      (Refunded(call[p].orderId) <=> (call[p].http = 200 /\ Paid(call[p].orderId)))

\* C18: when createOrder or the delivery status update has succeeded in the
\* service, the request reports success, also when the notification that
\* follows throws.
C18_NotifyFailure ==
  \A p \in Procs :
    (Sent(p, "createOrder") \/ Sent(p, "updateDeliveryStatus"))
      /\ call[p].svc \in {200, 201} => call[p].http = call[p].svc

\* C19: once the writes to a delivery have completed, what the cache holds
\* for it is the delivery as it is stored, so that a following getDeliveryById
\* returns no value cached before a write, also when a getDeliveryById has
\* interleaved with the write.
C19_CacheInvalidated ==
  (\A p \in Procs : call[p].pc = "idle") =>
    \A d \in DOMAIN deliveries : cache[d] \in {<<>>, <<deliveries[d]>>}

\* C20: when deleteDelivery succeeds the delivery no longer exists and its
\* order's delivery reference is cleared; when it fails, at whatever step, the
\* deliveries and the orders are as they were.
C20_AllOrNothing ==
  \A p \in Procs :
    Done(p, "deleteDelivery") =>
      IF call[p].http = 200
      THEN /\ call[p].deliveryId \notin DOMAIN deliveries
           /\ LET o == before.deliveries[call[p].deliveryId].order
              IN o \in 1..Len(orders) => orders[o].delivery = "none"
      ELSE deliveries = before.deliveries /\ orders = before.orders

\* C21: the distance calculateDistance gives between (48.8566, 2.3522) and
\* (45.7640, 4.8357) is within 2 km of 392 km.
C21_ParisLyon ==
  \A p \in Procs :
    Done(p, "calculateDistance")
      /\ call[p].startCoords = Paris /\ call[p].endCoords = Lyon =>
        Abs(call[p].distance - 392000) <= 2000

C21_Witness ==
  \E p \in Procs :
    /\ Done(p, "calculateDistance")
    /\ call[p].startCoords = Paris /\ call[p].endCoords = Lyon
    /\ call[p].distance > 0

\* the line items before the k-th
ItemsBefore(p) == SubSeq(Items(p), 1, call[p].i - 1)

\* C22: when the stock write of the k-th line item of createOrder fails, the
\* order is persisted with status pending, the products of the first k-1 line
\* items are decremented and no other, and nothing is rolled back.
C22_PartialDecrement ==
  \A p \in Procs :
    Done(p, "createOrder") /\ call[p].http = 500 =>
      /\ Len(orders) = Len(before.orders) + 1
      /\ SubSeq(orders, 1, Len(before.orders)) = before.orders
      /\ orders[Len(orders)].status = "pending"
      /\ orders[Len(orders)].products = Items(p)
      /\ \A prod \in Products :
           stock[prod] = before.stock[prod] - QtyOf(ItemsBefore(p), prod)

C22_Witness ==
  \E p \in Procs :
    /\ Done(p, "createOrder") /\ call[p].http = 500
    /\ call[p].i = 2 /\ Len(Items(p)) = 2
    /\ stock # before.stock

\* C23: an assignment succeeds only on a pending order, which it sets to
\* in_progress; on an order no longer pending it fails with Conflict and
\* changes nothing; of two couriers' interleaved requests for one order at
\* most one succeeds.
C23_OneAssignment ==
  \A p, q \in Procs :
    /\ Done(p, "assignOrderToLivreur") /\ call[p].http = 200
    /\ Done(q, "assignOrderToLivreur") /\ call[q].http = 200
    /\ call[p].orderId = call[q].orderId
    => call[p].livreurId = call[q].livreurId

\* the quantity of a product held by the orders that are not cancelled
RECURSIVE Held(_, _)
Held(list, prod) ==
  IF list = <<>> THEN 0
  ELSE (IF Head(list).status # "cancelled" THEN QtyOf(Head(list).products, prod)
        ELSE 0)
       + Held(Tail(list), prod)

\* C24: between calls of createOrder, cancelOrder and updateOrderStatus served
\* one at a time, the stock of every product plus the quantity of it in the
\* orders that are not cancelled is the product's initial stock.
C24_StockConserved ==
  (\A p \in Procs : call[p].pc = "idle") =>
    \A prod \in Products : stock[prod] + Held(orders, prod) = MaxStock

\* C25: the stock of an order is restored at most once: however two
\* cancelOrder calls on it interleave, the stock of each product rises by
\* what the order holds of it, not by twice that.
C25_RestoredOnce ==
  \A prod \in Products : stock[prod] <= QtyOf(orders[1].products, prod)

\* C26: a createOrder served on its own from a stock that is nowhere
\* negative, when it succeeds, leaves no product's stock negative, also when
\* line items of the order name the same product.
C26_SuccessNonNegative ==
  \A p \in Procs :
    Done(p, "createOrder") /\ call[p].http = 201
      /\ (\A prod \in Products : before.stock[prod] >= 0) =>
        \A prod \in Products : stock[prod] >= 0

\* C27: between requests, a delivery is in_progress with courier c exactly
\* when it is in c's deliveriesAssigned list, also after an acceptDelivery
\* whose second save has failed.
C27_RecordsAgree ==
  (\A p \in Procs : call[p].pc \in {"idle", "done"}) =>
    \A d \in DOMAIN deliveries, c \in Livreurs :
      (deliveries[d].status = "in_progress" /\ deliveries[d].livreur = c)
        <=> d \in Assigned(c)

\* C28: between requests, a delivery whose status is no longer the one it
\* was created with has that status as the last entry of its statusHistory.
C28_HistoryRecorded ==
  (\A p \in Procs : call[p].pc \in {"idle", "done"}) =>
    \A d \in DOMAIN deliveries :
      deliveries[d].status # "pending" =>
        /\ deliveries[d].statusHistory # <<>>
        /\ deliveries[d].statusHistory[Len(deliveries[d].statusHistory)]
             = deliveries[d].status

\* C29: a call of the courier's updateDeliveryStatus, by a courier and on a
\* delivery that exist, adds exactly 1 to the courier's deliveriesCompleted
\* when newStatus is delivered, and nothing otherwise.
C29_CompletedOnce ==
  \A p \in Procs :
    Done(p, "courierUpdate") /\ call[p].livreurId \in Livreurs
      /\ call[p].deliveryId \in DOMAIN before.deliveries =>
        livreurs[call[p].livreurId].performance.deliveriesCompleted =
          before.livreurs[call[p].livreurId].performance.deliveriesCompleted
            + (IF call[p].newStatus = "delivered" THEN 1 ELSE 0)

\* C30: a promotion that findBestPromotion returns passes isValid() at the
\* time it is returned: it is active, its usedCount is below its usageLimit
\* and it has not expired, so that createOrder would accept it
C30_BestIsValid ==
  \A p \in Procs :
    Done(p, "findBestPromotion") /\ call[p].best # "none"
      => IsValid(promotions[call[p].best])

TypeOK ==
  /\ stock \in [Products -> Int]
  /\ Len(orders) <= MaxRaceOrders
  /\ \A p \in Procs : call[p].pc \in
       {"idle", "done", "check", "promo", "persist", "dec",
        "read", "save", "restore", "avail", "loadLivreur", "loadDelivery",
        "saveDelivery", "saveLivreur", "load", "call", "find", "sent",
        "cacheGet", "findDelivery", "cacheSet", "readDelivery", "saveStatus",
        "queue", "cacheDel", "txFind", "txOrder", "txSaveOrder", "txRemove",
        "commit", "redisDel", "distance", "performance"}
====
